---- MODULE Spec2Model ----
(***************************************************************************)
(* Instance profiler of openmdao/devtools/profile.py.                      *)
(*                                                                         *)
(* Three specifications share this module:                                 *)
(*   Spec       the live tracker: setup, start, stop, the profile hook     *)
(*              _instance_profile (call / return events of the host        *)
(*              program's matched frames) and _finalize_profile;           *)
(*   MergeSpec  process_profile applied to bounded lists of raw files;     *)
(*   ConcSpec   the hook driven by two execution contexts inside one       *)
(*              session, on the one global stack pair or on a pair each.   *)
(*                                                                         *)
(* A call path is the sequence of its segments: '@'.join(parts) is the     *)
(* sequence, split('@') gives it back and rsplit('@', 1) is <<Front, Last>>*)
(* (no segment contains '@').  Times are integers, one unit being the      *)
(* microsecond that the "%f" of the raw file keeps.                        *)
(***************************************************************************)
EXTENDS Integers, Sequences, FiniteSets, TLC

\* ---------------------------------------------------------------- bounds
MaxWork == 2         \* sessions counted + returns recorded + matched frames open
MaxTime == 1         \* last value of the clock etime()

\* ------------------------------------------------------------- constants
None == -1           \* _profile_start = None: no session is active
TotalTok == "$total"
ParentTok == "$parent"

\* raw call-site tokens "file#line#id#func" of the matched frames
Tokens == {"f#1#7#A", "f#9#7#B"}

VARIABLES
    profile_setup,   \* _profile_setup
    profile_start,   \* _profile_start: None or the session's start time
    profile_total,   \* _profile_total
    call_stack,      \* _call_stack
    timing_stack,    \* _timing_stack
    inst_data,       \* _inst_data: path -> node
    hook,            \* sys.getprofile(): "none", "ours" or "other"
    atexit,          \* _finalize_profile is registered with atexit
    out,             \* the raw file written by _finalize_profile: key -> line
    nfinal,          \* runs of _finalize_profile so far
    main_done,       \* main() has made its call of _finalize_profile
    exited,          \* the process has run its exit hooks
    frames,          \* the host program's open matched frames (tokens)
    now,             \* the clock read by etime()
    op,              \* the last operation
    br,              \* the branch it took
    err,             \* the exception it raised, or "none"
    flist,           \* process_profile: the raw files given
    fi,              \* process_profile: index of the file being read
    ri,              \* process_profile: index of the next record in it
    tree_nodes,      \* process_profile: tree_nodes
    totals,          \* process_profile: totals
    mpc,             \* process_profile: position
    merr,            \* process_profile: the exception raised, or "none"
    ctx              \* two execution contexts whose events reach the hook

trackerVars == <<profile_setup, profile_start, profile_total, call_stack,
                 timing_stack, inst_data, hook, atexit, out, nfinal,
                 main_done, exited>>
envVars == <<frames, now, ctx>>
resVars == <<op, br, err>>
mergeVars == <<flist, fi, ri, tree_nodes, totals, mpc, merr>>
vars == <<trackerVars, envVars, resVars, mergeVars>>

\* ------------------------------------------------------------- helpers
Front(s) == SubSeq(s, 1, Len(s) - 1)
Last(s) == s[Len(s)]

RECURSIVE SumOver(_, _)
\* sum of f[k] over the keys k of S
SumOver(f, S) ==
    IF S = {} THEN 0
    ELSE LET k == CHOOSE k \in S : TRUE
         IN  f[k] + SumOver(f, S \ {k})

\* _prof_node: the fields of a fresh node that the tracker uses
ProfNode == [time |-> 0, count |-> 0, child_time |-> 0]

\* path not in _inst_data => _inst_data[path] = _prof_node(...)
Upsert(d, p) == IF p \in DOMAIN d THEN d ELSE d @@ (p :> ProfNode)

RootKey == <<TotalTok>>
RootCount == IF RootKey \in DOMAIN inst_data THEN inst_data[RootKey].count ELSE 0
RootTime == IF RootKey \in DOMAIN inst_data THEN inst_data[RootKey].time ELSE 0
Recorded == SumOver([p \in DOMAIN inst_data |-> inst_data[p].count],
                    DOMAIN inst_data \ {RootKey})
\* what the bound MaxWork counts
Work == RootCount + Recorded + Len(frames)

\* no context has an open frame; own_call and own_time are the stack pair
\* a context would have of its own, who and key the last return recorded
CtxIdle == [shared |-> TRUE,
            frames |-> <<<<>>, <<>>>>,
            own_call |-> <<<<TotalTok>>, <<TotalTok>>>>,
            own_time |-> <<<<>>, <<>>>>,
            who |-> 0, key |-> <<>>]

\* ------------------------------------------------------------- tracker
Init ==
    /\ profile_setup = FALSE
    /\ profile_start = None
    /\ profile_total = 0
    /\ call_stack = <<>>
    /\ timing_stack = <<>>
    /\ inst_data = <<>>
    /\ hook = "none"
    /\ atexit = FALSE
    /\ out = <<>>
    /\ nfinal = 0
    /\ main_done = FALSE
    /\ exited = FALSE
    /\ frames = <<>>
    /\ now = 0
    /\ op = "init" /\ br = "none" /\ err = "none"
    /\ flist = <<>> /\ fi = 0 /\ ri = 0
    /\ tree_nodes = <<>> /\ totals = <<>>
    /\ mpc = "idle" /\ merr = "none"
    /\ ctx = CtxIdle

\* the clock advances
Tick ==
    /\ ~exited
    /\ now < MaxTime
    /\ now' = now + 1
    /\ op' = "tick" /\ br' = "none" /\ err' = "none"
    /\ UNCHANGED <<trackerVars, frames, ctx, mergeVars>>

\* setup(finalize=fin)
Setup(fin) ==
    /\ ~exited
    /\ op' = "setup"
    /\ IF profile_setup
       THEN /\ br' = "raise" /\ err' = "RuntimeError"
            /\ UNCHANGED <<profile_setup, atexit>>
       ELSE /\ br' = (IF fin THEN "full" ELSE "full_nofinalize")
            /\ err' = "none"
            /\ profile_setup' = TRUE
            \* atexit.register(_finalize_profile), whatever fin is
            /\ atexit' = TRUE
    /\ UNCHANGED <<profile_start, profile_total, call_stack, timing_stack,
                   inst_data, hook, out, nfinal, main_done, exited, envVars,
                   mergeVars>>

\* start() past its "already active" test: the session begins
StartSession(other) ==
    /\ Work < MaxWork
    /\ br' = "full"
    /\ profile_setup' = TRUE
    /\ atexit' = (atexit \/ ~profile_setup)
    /\ profile_start' = now
    /\ call_stack' = Append(call_stack, TotalTok)
    /\ inst_data' = Upsert(inst_data, RootKey)
    /\ IF hook # "none" \/ other
       THEN err' = "RuntimeError" /\ hook' = "other"
       ELSE err' = "none" /\ hook' = "ours"
    /\ UNCHANGED <<profile_total, timing_stack, out, nfinal, main_done, exited>>

\* start() without the test of _profile_start
StartNoGuard(other) ==
    /\ ~exited
    /\ op' = "start"
    /\ StartSession(other)
    /\ UNCHANGED <<envVars, mergeVars>>

\* start(); other: sys.getprofile() finds the profile function of another tool
Start(other) ==
    /\ ~exited
    /\ op' = "start"
    /\ IF profile_start # None
       THEN /\ ~other
            /\ br' = "already" /\ err' = "none"
            /\ UNCHANGED trackerVars
       ELSE StartSession(other)
    /\ UNCHANGED <<envVars, mergeVars>>

\* stop() past its test of _profile_start: the session ends
StopSession ==
    /\ br' = "full"
    /\ hook' = "none"
    /\ IF call_stack = <<>>
       THEN /\ err' = "IndexError"
            /\ UNCHANGED <<profile_start, profile_total, call_stack, inst_data>>
       ELSE /\ call_stack' = Front(call_stack)
            /\ profile_total' = profile_total + (now - profile_start)
            /\ IF RootKey \notin DOMAIN inst_data
               THEN \* _inst_data['$total'] raises
                    /\ err' = "KeyError"
                    /\ UNCHANGED <<profile_start, inst_data>>
               ELSE /\ err' = "none"
                    /\ inst_data' = [inst_data EXCEPT
                           ![RootKey].time = profile_total + (now - profile_start),
                           ![RootKey].count = @ + 1]
                    /\ profile_start' = None
    /\ UNCHANGED <<profile_setup, timing_stack, atexit, out, nfinal,
                   main_done, exited>>

\* stop() without the test of _profile_start
StopNoGuard ==
    /\ ~exited
    /\ op' = "stop"
    /\ StopSession
    /\ UNCHANGED <<envVars, mergeVars>>

\* stop()
Stop ==
    /\ ~exited
    /\ op' = "stop"
    /\ IF profile_start = None
       THEN /\ br' = "inactive" /\ err' = "none"
            /\ UNCHANGED trackerVars
       ELSE StopSession
    /\ UNCHANGED <<envVars, mergeVars>>

\* _instance_profile(frame, 'call', arg) for a matched frame with token t
Call(t) ==
    /\ ~exited
    /\ Work < MaxWork
    /\ frames' = Append(frames, t)
    /\ op' = "call" /\ err' = "none"
    /\ IF hook = "ours"
       THEN /\ br' = "tracked"
            /\ call_stack' = Append(call_stack, t)
            /\ timing_stack' = Append(timing_stack, now)
       ELSE /\ br' = "untracked"
            /\ UNCHANGED <<call_stack, timing_stack>>
    /\ UNCHANGED <<profile_setup, profile_start, profile_total, inst_data,
                   hook, atexit, out, nfinal, main_done, exited, now, ctx,
                   mergeVars>>

\* a node keyed by the returning token alone
TopOnly(stack) == IF stack = <<>> THEN stack ELSE <<Last(stack)>>

RECURSIVE Collapse(_)
\* a stack with every run of one token taken once
Collapse(stack) ==
    IF Len(stack) < 2 THEN stack
    ELSE IF Last(stack) = Last(Front(stack)) THEN Collapse(Front(stack))
    ELSE Append(Collapse(Front(stack)), Last(stack))
\* path = '@'.join(_call_stack): the key of a node keeps every token of the
\* stack, in order
PathKey(stack) == stack

\* _instance_profile(frame, 'return', arg) for the innermost matched frame
Return ==
    /\ ~exited
    /\ frames # <<>>
    /\ frames' = Front(frames)
    /\ op' = "return"
    /\ IF hook # "ours"
       THEN /\ br' = "untracked" /\ err' = "none"
            /\ UNCHANGED <<call_stack, timing_stack, inst_data, hook>>
       ELSE /\ br' = "tracked"
            /\ IF call_stack = <<>>
               THEN \* _prof_node([]) fails on parts[-1]
                    /\ err' = "IndexError" /\ hook' = "none"
                    /\ UNCHANGED <<call_stack, timing_stack, inst_data>>
               ELSE /\ call_stack' = Front(call_stack)
                    /\ IF timing_stack = <<>>
                       THEN /\ err' = "IndexError" /\ hook' = "none"
                            /\ inst_data' = Upsert(inst_data, PathKey(call_stack))
                            /\ UNCHANGED timing_stack
                       ELSE /\ err' = "none" /\ hook' = hook
                            /\ timing_stack' = Front(timing_stack)
                            /\ inst_data' =
                                 [Upsert(inst_data, PathKey(call_stack)) EXCEPT
                                    ![PathKey(call_stack)].time = @ + (now - Last(timing_stack)),
                                    ![PathKey(call_stack)].count = @ + 1]
    /\ UNCHANGED <<profile_setup, profile_start, profile_total, atexit, out,
                   nfinal, main_done, exited, now, ctx, mergeVars>>

\* _inst_data after the stop() that opens _finalize_profile (a session in
\* progress has its root node: start() made it)
StoppedData ==
    IF profile_start = None THEN inst_data
    ELSE [inst_data EXCEPT
            ![RootKey].time = profile_total + (now - profile_start),
            ![RootKey].count = @ + 1]

\* the Name Resolver: the display segment of a raw token
\* (_find_qualified_name and the instance ordinal of its class)
Display(tok) ==
    IF tok = "f#1#7#A" THEN "<C#0.A>"
    ELSE IF tok = "f#9#7#B" THEN "<C#0.B>"
    ELSE tok

\* _obj_map: one entry per trailing segment of a recorded path, plus the
\* two reserved segments
ObjMap(d) ==
    [s \in {Last(p) : p \in DOMAIN d} \cup {TotalTok, ParentTok} |-> Display(s)]

\* paths of d with a parent part (len(funcpath.rsplit('@', 1)) > 1)
WithParent(d) == {p \in DOMAIN d : Len(p) > 1}
\* those whose parent path is no key of d: _inst_data[parts[0]] raises KeyError
Orphans(d) == {p \in WithParent(d) : Front(p) \notin DOMAIN d}

\* the "compute child times" loop run over the paths of S
AddChildTimes(d, S) ==
    [q \in DOMAIN d |->
        [d[q] EXCEPT !.child_time =
            @ + SumOver([p \in DOMAIN d |-> d[p].time],
                        {p \in S : Front(p) = q})]]

\* parnodes: the synthetic '$parent' child of every node with child_time > 0
ParNodes(d) ==
    [k \in {Append(q, ParentTok) : q \in {q \in DOMAIN d : d[q].child_time > 0}} |->
        [time |-> d[Front(k)].time - d[Front(k)].child_time,
         count |-> 1, child_time |-> 0]]

\* "%f" of a time: the model's unit is the last digit it keeps
FormatTime(t) == t

\* the lines written: chain(iteritems(_inst_data), parnodes)
Lines(d, m) ==
    LET all == d @@ ParNodes(d)
    IN  [k \in DOMAIN all |->
            [name |-> [i \in 1..Len(k) |-> m[k[i]]],
             count |-> all[k].count,
             time |-> FormatTime(all[k].time)]]

\* _finalize_profile(): stop(), the name map, the child times, the
\* synthetic nodes and the file
FinalizeBody ==
    /\ nfinal' = nfinal + 1
    /\ IF profile_start # None /\ call_stack = <<>>
       THEN \* stop() raises on _call_stack.pop()
            /\ err' = "IndexError" /\ br' = "stop"
            /\ hook' = "none"
            /\ UNCHANGED <<profile_start, profile_total, call_stack,
                           inst_data, out>>
       ELSE /\ hook' = IF profile_start = None THEN hook ELSE "none"
            /\ call_stack' = IF profile_start = None THEN call_stack
                             ELSE Front(call_stack)
            /\ profile_total' = IF profile_start = None THEN profile_total
                                ELSE profile_total + (now - profile_start)
            /\ profile_start' = None
            /\ LET d == StoppedData
                   m == ObjMap(d)
               IN  IF Orphans(d) # {}
                   THEN /\ err' = "KeyError" /\ br' = "child_time"
                        /\ \E S \in SUBSET (WithParent(d) \ Orphans(d)) :
                              inst_data' = AddChildTimes(d, S)
                        /\ UNCHANGED out
                   ELSE LET d2 == AddChildTimes(d, WithParent(d))
                            keys == DOMAIN d2 \cup DOMAIN ParNodes(d2)
                            bad == {k \in keys :
                                      \E i \in 1..Len(k) : k[i] \notin DOMAIN m}
                        IN  /\ inst_data' = d2
                            /\ IF bad # {}
                               THEN /\ err' = "KeyError" /\ br' = "write"
                                    /\ \E W \in SUBSET (keys \ bad) :
                                          out' = [k \in W |-> Lines(d2, m)[k]]
                               ELSE /\ err' = "none" /\ br' = "full"
                                    /\ out' = Lines(d2, m)
    /\ UNCHANGED <<profile_setup, timing_stack, atexit, envVars, mergeVars>>

\* an explicit call of _finalize_profile(), as main() makes
Finalize ==
    /\ ~exited
    /\ ~main_done
    /\ main_done' = TRUE
    /\ op' = "finalize"
    /\ FinalizeBody
    /\ UNCHANGED exited

\* the process exits with no frame open: the atexit hooks run
Exit ==
    /\ ~exited
    /\ frames = <<>>
    /\ exited' = TRUE
    /\ op' = "exit"
    /\ UNCHANGED main_done
    /\ IF atexit
       THEN FinalizeBody
       ELSE /\ br' = "none" /\ err' = "none"
            /\ UNCHANGED <<profile_setup, profile_start, profile_total,
                           call_stack, timing_stack, inst_data, hook, atexit,
                           out, nfinal, envVars, mergeVars>>

Next ==
    \/ Tick
    \/ \E fin \in BOOLEAN : Setup(fin)
    \/ \E other \in BOOLEAN : Start(other)
    \/ Stop
    \/ \E t \in Tokens : Call(t)
    \/ Return
    \/ Finalize
    \/ Exit

Spec == Init /\ [][Next]_vars
\* ------------------------------------------------------- merge engine
MaxRecs == 3         \* records in the raw files of one merge, all files together

\* the display paths found in the raw files
InPaths == {<<TotalTok>>, <<TotalTok, "a">>, <<TotalTok, "a", "a">>,
            <<TotalTok, ParentTok>>}
\* the count and the time of a record
InVals == {[count |-> 1, time |-> 0], [count |-> 2, time |-> 1]}
\* the extensions of the file names of one merge
InExts == {<<".0">>, <<"">>, <<".0", ".1">>, <<".0", "">>, <<"", "">>}

InRecords == {[path |-> q, count |-> v.count, time |-> v.time] :
                 q \in InPaths, v \in InVals}
RecSeqs(n) == UNION {[1..k -> InRecords] : k \in 0..n}

\* the lists of raw files tried: every split of at most MaxRecs records
InLists ==
    {<<[ext |-> e[1], recs |-> r]>> : e \in {e \in InExts : Len(e) = 1},
                                      r \in RecSeqs(MaxRecs)}
    \cup
    {<<[ext |-> x.e[1], recs |-> SubSeq(x.r, 1, x.k)],
       [ext |-> x.e[2], recs |-> SubSeq(x.r, x.k + 1, Len(x.r))]>> :
        x \in {y \in [e : {e \in InExts : Len(e) = 2},
                      r : RecSeqs(MaxRecs), k : 0..MaxRecs] : y.k <= Len(y.r)}}

\* int(ext.lstrip('.')) succeeds: dec = ext, otherwise dec = False
IsIntExt(ext) == ext \in {".0", ".1"}
\* a merge that decorates by the extension alone, whatever nfiles is
DecoratedAlways(fl, i) == IsIntExt(fl[i].ext)
\* nfiles > 1 and dec
Decorated(fl, i) == Len(fl) > 1 /\ IsIntExt(fl[i].ext)
\* ["%s%s" % (p, dec) for p in parts]
Decorate(parts, dec) == [i \in 1..Len(parts) |-> parts[i] \o dec]
\* the path of record r of file i as it keys the tree
KeyOf(fl, i, r) ==
    IF Decorated(fl, i) THEN Decorate(fl[i].recs[r].path, fl[i].ext)
    ELSE fl[i].recs[r].path

Zero == [num |-> 0, den |-> 1]
\* a / b of two times, for b # 0
Div(a, b) == [num |-> a, den |-> b]

\* _prof_node(parts): the fields process_profile keeps
TreeNode == [time |-> 0, count |-> 0, tot_time |-> 0, tot_count |-> 0,
             pct_total |-> Zero, tot_pct_total |-> Zero, pct_parent |-> Zero]

RECURSIVE Advance(_, _, _)
\* the next record at or after record r of file i: the two for loops
Advance(fl, i, r) ==
    IF i > Len(fl) THEN <<i, 1>>
    ELSE IF r > Len(fl[i].recs) THEN Advance(fl, i + 1, 1)
    ELSE <<i, r>>

\* tree_nodes[funcpath] = node = _prof_node(parts);
\* node['time'] += t; node['count'] += count
TreeStore(tn, k, rec) ==
    [q \in DOMAIN tn \cup {k} |->
        IF q = k
        THEN [TreeNode EXCEPT !.time = @ + rec.time, !.count = @ + rec.count]
        ELSE tn[q]]

\* the totals node of funcname, created on first sight, accumulates
TotalsAdd(tt, f, k, rec) ==
    LET old == IF f \in DOMAIN tt THEN tt[f]
               ELSE [name |-> k, tot_time |-> 0, tot_count |-> 0]
    IN  [g \in DOMAIN tt \cup {f} |->
            IF g = f
            THEN [old EXCEPT !.tot_time = @ + rec.time,
                             !.tot_count = @ + rec.count]
            ELSE tt[g]]

MergeInit ==
    /\ profile_setup = FALSE
    /\ profile_start = None
    /\ profile_total = 0
    /\ call_stack = <<>>
    /\ timing_stack = <<>>
    /\ inst_data = <<>>
    /\ hook = "none"
    /\ atexit = FALSE
    /\ out = <<>>
    /\ nfinal = 0
    /\ main_done = FALSE
    /\ exited = FALSE
    /\ frames = <<>>
    /\ now = 0
    /\ op = "init" /\ br = "none" /\ err = "none"
    /\ flist \in InLists
    /\ fi = Advance(flist, 1, 1)[1]
    /\ ri = Advance(flist, 1, 1)[2]
    /\ tree_nodes = <<>> /\ totals = <<>>
    /\ mpc = "read" /\ merr = "none"
    /\ ctx = CtxIdle

\* one turn of the loop over the records of the files
ReadRecord ==
    /\ mpc = "read"
    /\ fi <= Len(flist)
    /\ LET rec == flist[fi].recs[ri]
           k == KeyOf(flist, fi, ri)
           funcname == Last(k)
       IN  /\ tree_nodes' = TreeStore(tree_nodes, k, rec)
           /\ totals' = IF funcname = ParentTok THEN totals
                        ELSE TotalsAdd(totals, funcname, k, rec)
    /\ fi' = Advance(flist, fi, ri + 1)[1]
    /\ ri' = Advance(flist, fi, ri + 1)[2]
    /\ UNCHANGED <<flist, mpc, merr, trackerVars, envVars, resVars>>

\* funcpath.rsplit('@', 1)[0]: the parent path, or the path itself when
\* it has one segment
ParentKey(k) == IF Len(k) > 1 THEN Front(k) ELSE k

\* tree_nodes[parts[0]]['time'] = 0. for every path that ends in '$parent'
ZeroParents(tn) ==
    [q \in DOMAIN tn |->
        IF \E k \in DOMAIN tn : Last(k) = ParentTok /\ ParentKey(k) = q
        THEN [tn[q] EXCEPT !.time = 0]
        ELSE tn[q]]

\* the exception that the percentage lines raise for node k, or "none"
PctErr(tn, k) ==
    IF ParentKey(k) \notin DOMAIN tn THEN "KeyError"
    ELSE IF tn[ParentKey(k)].time = 0 THEN "ZeroDivisionError"
    ELSE IF RootKey \notin DOMAIN tn THEN "KeyError"
    ELSE IF tn[RootKey].time = 0 THEN "ZeroDivisionError"
    ELSE "none"

\* the percentage lines run on a tree whose parents are zeroed already
PctNodeAfterZero(tn, tt, k) ==
    IF Last(k) = ParentTok THEN tn[k]
    ELSE [tn[k] EXCEPT
            !.tot_time = tt[Last(k)].tot_time,
            !.tot_count = tt[Last(k)].tot_count,
            !.pct_parent = Div(tn[k].time, ZeroParents(tn)[ParentKey(k)].time),
            !.pct_total = Div(tn[k].time, ZeroParents(tn)[RootKey].time),
            !.tot_pct_total = Div(tt[Last(k)].tot_time, tn[RootKey].time)]

\* the node k after the percentage lines
PctNode(tn, tt, k) ==
    IF Last(k) = ParentTok THEN tn[k]
    ELSE [tn[k] EXCEPT
            !.tot_time = tt[Last(k)].tot_time,
            !.tot_count = tt[Last(k)].tot_count,
            !.pct_parent = Div(tn[k].time, tn[ParentKey(k)].time),
            !.pct_total = Div(tn[k].time, tn[RootKey].time),
            !.tot_pct_total = Div(tt[Last(k)].tot_time, tn[RootKey].time)]

\* the second loop, over tree_nodes, and the root's tot_time
PctPass ==
    /\ mpc = "read"
    /\ fi > Len(flist)
    /\ LET errs == {PctErr(tree_nodes, k) :
                       k \in {k \in DOMAIN tree_nodes : Last(k) # ParentTok}}
                   \ {"none"}
       IN  IF errs # {}
           THEN /\ merr' \in errs
                /\ mpc' = "error"
                /\ UNCHANGED tree_nodes
           ELSE IF RootKey \notin DOMAIN tree_nodes
           THEN /\ merr' = "KeyError"
                /\ mpc' = "error"
                /\ UNCHANGED tree_nodes
           ELSE /\ merr' = "none"
                /\ mpc' = "zero"
                /\ tree_nodes' =
                     [k \in DOMAIN tree_nodes |->
                        IF k = RootKey
                        THEN [PctNode(tree_nodes, totals, k) EXCEPT
                                 !.tot_time = tree_nodes[RootKey].time]
                        ELSE PctNode(tree_nodes, totals, k)]
    /\ UNCHANGED <<flist, fi, ri, totals, trackerVars, envVars, resVars>>

\* the last loop: the parent of every '$parent' node gets time 0
ZeroPass ==
    /\ mpc = "zero"
    /\ LET pk == {k \in DOMAIN tree_nodes : Last(k) = ParentTok}
       IN  IF \E k \in pk : ParentKey(k) \notin DOMAIN tree_nodes
           THEN /\ merr' = "KeyError"
                /\ mpc' = "error"
                /\ UNCHANGED tree_nodes
           ELSE /\ merr' = "none"
                /\ mpc' = "done"
                /\ tree_nodes' = ZeroParents(tree_nodes)
    /\ UNCHANGED <<flist, fi, ri, totals, trackerVars, envVars, resVars>>

MergeNext ==
    \/ ReadRecord
    \/ PctPass
    \/ ZeroPass

MergeSpec == MergeInit /\ [][MergeNext]_vars

\* ------------------------------------------------ two execution contexts
Contexts == {1, 2}
Other(c) == 3 - c
\* each context runs matched frames of its own call site
CtxToken(c) == IF c = 1 THEN "f#1#7#A" ELSE "f#9#7#B"

\* context c works on the module-level _call_stack / _timing_stack (the
\* code), or on a pair of its own (the alternative that section 5 of the
\* specification names)
UsesShared(c) == ctx.shared

\* what the bound MaxWork counts here
ConcWork == Recorded + Len(ctx.frames[1]) + Len(ctx.frames[2])

\* a session is active: the state after start(), with the two contexts idle
ConcInit ==
    /\ profile_setup = TRUE
    /\ profile_start = 0
    /\ profile_total = 0
    /\ call_stack = <<TotalTok>>
    /\ timing_stack = <<>>
    /\ inst_data = (RootKey :> ProfNode)
    /\ hook = "ours"
    /\ atexit = TRUE
    /\ out = <<>>
    /\ nfinal = 0
    /\ main_done = FALSE
    /\ exited = FALSE
    /\ frames = <<>>
    /\ now = 0
    /\ op = "start" /\ br = "full" /\ err = "none"
    /\ flist = <<>> /\ fi = 0 /\ ri = 0
    /\ tree_nodes = <<>> /\ totals = <<>>
    /\ mpc = "idle" /\ merr = "none"
    /\ \E sh \in BOOLEAN : ctx = [CtxIdle EXCEPT !.shared = sh]

\* _instance_profile(frame, 'call', arg) for a frame of context c
ConcCall(c) ==
    /\ ConcWork < MaxWork
    /\ op' = "call" /\ br' = "tracked" /\ err' = "none"
    /\ IF UsesShared(c)
       THEN /\ call_stack' = Append(call_stack, CtxToken(c))
            /\ timing_stack' = Append(timing_stack, now)
            /\ ctx' = [ctx EXCEPT !.frames[c] = Append(@, CtxToken(c))]
       ELSE /\ ctx' = [ctx EXCEPT !.frames[c] = Append(@, CtxToken(c)),
                                  !.own_call[c] = Append(@, CtxToken(c)),
                                  !.own_time[c] = Append(@, now)]
            /\ UNCHANGED <<call_stack, timing_stack>>
    /\ UNCHANGED <<profile_setup, profile_start, profile_total, inst_data,
                   hook, atexit, out, nfinal, main_done, exited, frames, now,
                   mergeVars>>

\* _instance_profile(frame, 'return', arg) for the innermost frame of
\* context c
ConcReturn(c) ==
    /\ ctx.frames[c] # <<>>
    /\ hook = "ours"
    /\ op' = "return" /\ br' = "tracked"
    /\ LET cs == IF UsesShared(c) THEN call_stack ELSE ctx.own_call[c]
           ts == IF UsesShared(c) THEN timing_stack ELSE ctx.own_time[c]
           popped == [ctx EXCEPT !.frames[c] = Front(@),
                                 !.who = c, !.key = PathKey(cs)]
       IN  IF cs = <<>> \/ ts = <<>>
           THEN /\ err' = "IndexError" /\ hook' = "none"
                /\ inst_data' = IF cs = <<>> THEN inst_data
                                ELSE Upsert(inst_data, PathKey(cs))
                /\ IF UsesShared(c)
                   THEN /\ call_stack' = Front(cs)
                        /\ ctx' = popped
                        /\ UNCHANGED timing_stack
                   ELSE /\ ctx' = [popped EXCEPT !.own_call[c] = Front(cs)]
                        /\ UNCHANGED <<call_stack, timing_stack>>
           ELSE /\ err' = "none" /\ hook' = hook
                /\ inst_data' =
                     [Upsert(inst_data, PathKey(cs)) EXCEPT
                        ![PathKey(cs)].time = @ + (now - Last(ts)),
                        ![PathKey(cs)].count = @ + 1]
                /\ IF UsesShared(c)
                   THEN /\ call_stack' = Front(cs)
                        /\ timing_stack' = Front(ts)
                        /\ ctx' = popped
                   ELSE /\ ctx' = [popped EXCEPT !.own_call[c] = Front(cs),
                                                 !.own_time[c] = Front(ts)]
                        /\ UNCHANGED <<call_stack, timing_stack>>
    /\ UNCHANGED <<profile_setup, profile_start, profile_total, atexit, out,
                   nfinal, main_done, exited, frames, now, mergeVars>>

ConcNext ==
    \/ Tick
    \/ \E c \in Contexts : ConcCall(c)
    \/ \E c \in Contexts : ConcReturn(c)

ConcSpec == ConcInit /\ [][ConcNext]_vars

\* ------------------------------------------------------ claims, tracker
CountAt(d, p) == IF p \in DOMAIN d THEN d[p].count ELSE 0
TimeAt(d, p) == IF p \in DOMAIN d THEN d[p].time ELSE 0

\* a return event reaches the hook of an active session
ReturnEvent == op' = "return" /\ hook = "ours"
\* ... and its frame's token is not the one on top of the call stack
Unbalanced == call_stack = <<>> \/ Last(call_stack) # Last(frames)

\* C1: every return event inside an active session is recorded under the
\* join of the whole call stack, root token first and returning token last;
\* both stacks lose exactly their top, the node exists afterwards, its time
\* grows by now minus the popped entry time and its count by one.
C1_ReturnRecordsPath ==
    [][ReturnEvent =>
          /\ call_stack # <<>>
          /\ call_stack[1] = TotalTok
          /\ Last(call_stack) = Last(frames)
          /\ call_stack' = Front(call_stack)
          /\ timing_stack # <<>>
          /\ timing_stack' = Front(timing_stack)
          /\ call_stack \in DOMAIN inst_data'
          /\ inst_data'[call_stack].time =
                 TimeAt(inst_data, call_stack) + (now - Last(timing_stack))
          /\ inst_data'[call_stack].count = CountAt(inst_data, call_stack) + 1
       ]_vars

\* C2: each stop() of an active session adds the session's duration to the
\* root node's time and one to its count.
C2_StopAddsSession ==
    [][(op' = "stop" /\ profile_start # None) =>
          /\ RootCount' = RootCount + 1
          /\ RootTime' = RootTime + (now - profile_start)
       ]_vars

C4_StopInactiveNoOp ==
    [][/\ (op' = "stop" /\ profile_start = None) =>
              (err' = "none" /\ UNCHANGED trackerVars)
       /\ (op = "stop" /\ op' = "stop") => UNCHANGED trackerVars
      ]_vars

\* a second stop() right after the stop() that closed a session
C4_Witness ==
    /\ op = "stop" /\ br = "inactive"
    /\ profile_start = None
    /\ RootCount = 1

\* C5: a return event whose token is not on top of the call stack raises
\* and modifies neither the stacks nor any node.
C5_UnbalancedReturnRaises ==
    [][(ReturnEvent /\ Unbalanced) =>
          /\ err' # "none"
          /\ UNCHANGED <<call_stack, timing_stack, inst_data>>
      ]_vars

\* C6: whenever _finalize_profile has closed the session, also one with
\* frames still open, it has completed without error and the file holds a
\* line for every node recorded.
C6_PartialDataFinalizes ==
    (op = "finalize" /\ profile_start = None) =>
        /\ err = "none"
        /\ DOMAIN inst_data \subseteq DOMAIN out

\* the times written for the children of q, the synthetic one included
ChildLines(q) == {k \in DOMAIN out : Len(k) > 1 /\ Front(k) = q}
ChildLineSum(q) == SumOver([k \in DOMAIN out |-> out[k].time], ChildLines(q))

\* C7: after a finalize that wrote the file, a node with child_time > 0 has
\* the synthetic child <path>@$parent with count 1 and time
\* time - child_time, and its children's times add up to its own time; a
\* node with child_time = 0 has no synthetic child.
C7_SelfNodeCompletesParent ==
    (op \in {"finalize", "exit"} /\ br = "full" /\ err = "none") =>
        \A q \in DOMAIN inst_data :
            LET k == Append(q, ParentTok)
            IN  IF inst_data[q].child_time > 0
                THEN /\ k \in DOMAIN out
                     /\ out[k].count = 1
                     /\ out[k].time = inst_data[q].time - inst_data[q].child_time
                     /\ ChildLineSum(q) = inst_data[q].time
                ELSE k \notin DOMAIN out

\* -------------------------------------------------- claims, merge engine
RECURSIVE SumSeq(_, _)
\* sum of g[i] over the positions 1..n of the sequence g
SumSeq(g, n) == IF n = 0 THEN 0 ELSE g[n] + SumSeq(g, n - 1)

\* sum of the field fld over the records of file i that key the tree at k
FileSum(fl, i, k, fld) ==
    SumSeq([r \in 1..Len(fl[i].recs) |->
               IF KeyOf(fl, i, r) = k
               THEN (IF fld = "time" THEN fl[i].recs[r].time
                     ELSE fl[i].recs[r].count)
               ELSE 0],
           Len(fl[i].recs))
\* ... over the records of all files
InputSum(fl, k, fld) ==
    SumSeq([i \in 1..Len(fl) |-> FileSum(fl, i, k, fld)], Len(fl))

\* every record has been read and the percentage pass has not begun
ReadDone == mpc = "read" /\ fi > Len(flist)

\* C8: once all records are read, the time and the count of every tree
\* node are the sums over all records of its path.
C8_RecordsAccumulate ==
    ReadDone =>
        \A k \in DOMAIN tree_nodes :
            /\ tree_nodes[k].time = InputSum(flist, k, "time")
            /\ tree_nodes[k].count = InputSum(flist, k, "count")

\* the tree nodes whose trailing segment is f
NodesOf(f) == {k \in DOMAIN tree_nodes : Last(k) = f}

\* C9: after the percentage pass, tot_count(f) and tot_time(f) of every
\* function f are the sums of count and (inclusive) time over the tree
\* nodes that end in f, and each of those nodes carries the two totals.
C9_TotalsSumNodes ==
    (mpc = "zero") =>
        \A f \in DOMAIN totals :
            /\ totals[f].tot_count =
                 SumOver([k \in DOMAIN tree_nodes |-> tree_nodes[k].count],
                         NodesOf(f))
            /\ totals[f].tot_time =
                 SumOver([k \in DOMAIN tree_nodes |-> tree_nodes[k].time],
                         NodesOf(f))
            /\ \A k \in NodesOf(f) :
                 /\ tree_nodes[k].tot_count = totals[f].tot_count
                 /\ tree_nodes[k].tot_time = totals[f].tot_time

\* the distinct paths of file i
PathsOf(fl, i) == {fl[i].recs[r].path : r \in 1..Len(fl[i].recs)}
\* file i is as a finalize writes it: it has a '$total' record and no
\* record with time 0
RawShaped(fl, i) ==
    /\ \E r \in 1..Len(fl[i].recs) : fl[i].recs[r].path = RootKey
    /\ \A r \in 1..Len(fl[i].recs) : fl[i].recs[r].time > 0
\* the merge has two such files, both with an integer extension
TwoRanks ==
    /\ Len(flist) = 2
    /\ \A i \in 1..2 : IsIntExt(flist[i].ext) /\ RawShaped(flist, i)
\* the root nodes of the decorated tree
RankRoots == {k \in DOMAIN tree_nodes :
                 \E i \in 1..2 : k = Decorate(RootKey, flist[i].ext)}

\* C10: a merge of two files with integer extensions completes; its tree
\* has as many nodes as the two files have paths, and its root count and
\* time are the sums of the '$total' records of the two files.
C10_TwoRanksMerge ==
    (TwoRanks /\ mpc \in {"error", "zero", "done"}) =>
        /\ merr = "none"
        /\ Cardinality(DOMAIN tree_nodes) =
              Cardinality(PathsOf(flist, 1)) + Cardinality(PathsOf(flist, 2))
        /\ SumOver([k \in DOMAIN tree_nodes |-> tree_nodes[k].count], RankRoots)
              = SumSeq([i \in 1..2 |-> FileSum(flist, i,
                           Decorate(RootKey, flist[i].ext), "count")], 2)
        /\ SumOver([k \in DOMAIN tree_nodes |-> tree_nodes[k].tot_time], RankRoots)
              = SumSeq([i \in 1..2 |-> FileSum(flist, i,
                           Decorate(RootKey, flist[i].ext), "time")], 2)

\* ------------------------------------------------- claims, merge engine 2
\* the merge has one file, with one record per path
OneFile == Len(flist) = 1
OneRecordPerPath ==
    \A r1, r2 \in 1..Len(flist[1].recs) :
        flist[1].recs[r1].path = flist[1].recs[r2].path => r1 = r2
\* the record of path q in the one file
RecOf(q) ==
    flist[1].recs[CHOOSE r \in 1..Len(flist[1].recs) : flist[1].recs[r].path = q]
\* path q has a '$parent' child in the tree
HasSelfNode(q) == Append(q, ParentTok) \in DOMAIN tree_nodes
\* the tree has the paths of the one file, undecorated, each with the
\* count of its record
SamePathsAndCounts ==
    /\ DOMAIN tree_nodes = PathsOf(flist, 1)
    /\ \A q \in DOMAIN tree_nodes : tree_nodes[q].count = RecOf(q).count

\* C11 as stated: a merge of one file with one record per path returns a
\* tree with the paths of the file, undecorated, and for each path the
\* count and the time of its record.
C11_OneFileReplay ==
    (OneFile /\ OneRecordPerPath /\ mpc = "done") =>
        /\ SamePathsAndCounts
        /\ \A q \in DOMAIN tree_nodes : tree_nodes[q].time = RecOf(q).time

\* C11 amended: a merge of one file with one record per path reads the
\* paths undecorated with the count and the time of their records, and the
\* tree it returns has the same paths and counts, and the same times but
\* for the paths that have a '$parent' child, whose time is 0.
C11_OneFileReplayZeroed ==
    (OneFile /\ OneRecordPerPath) =>
        /\ (ReadDone \/ mpc = "zero") =>
              /\ SamePathsAndCounts
              /\ \A q \in DOMAIN tree_nodes : tree_nodes[q].time = RecOf(q).time
        /\ (mpc = "done") =>
              /\ SamePathsAndCounts
              /\ \A q \in DOMAIN tree_nodes :
                    tree_nodes[q].time =
                       IF HasSelfNode(q) THEN 0 ELSE RecOf(q).time

\* a returned merge of the one file x.0 that holds '$total', '$total@a'
\* and '$total@$parent', each with a time above 0
C11_Witness ==
    /\ OneFile /\ OneRecordPerPath /\ mpc = "done"
    /\ flist[1].ext = ".0"
    /\ DOMAIN tree_nodes = {RootKey, <<TotalTok, "a">>, <<TotalTok, ParentTok>>}
    /\ RecOf(RootKey).time > 0
    /\ tree_nodes[RootKey].time = 0
    /\ tree_nodes[<<TotalTok, "a">>].time > 0

\* C12: the percentage pass never stops on a zero denominator: no merge,
\* whatever the times of the root and of the parents are, ends with a
\* ZeroDivisionError.
C12_ZeroDenominatorNoRaise ==
    (mpc = "error") => merr # "ZeroDivisionError"

\* ---------------------------------------------------- claims, tracker 2
\* a session whose stacks hold the open tracked frames and nothing else
Nested ==
    /\ profile_start # None
    /\ call_stack # <<>> /\ call_stack[1] = TotalTok
    /\ Len(timing_stack) = Len(call_stack) - 1
    /\ \A i \in 2..Len(call_stack) : call_stack[i] \in Tokens
\* the two innermost tracked frames have the same token
SameSite ==
    /\ Nested /\ Len(call_stack) >= 3
    /\ Last(call_stack) = Last(Front(call_stack))
\* the innermost tracked frame is the outer one of a same-site pair whose
\* inner frame has returned
OuterOfPair ==
    /\ Nested /\ Len(call_stack) >= 2
    /\ Append(call_stack, Last(call_stack)) \in DOMAIN inst_data

\* C13 as stated: the return of the inner of two same-site frames is
\* counted in the node of the outer frame's path, and no node is made for
\* the path that holds the token twice.
C13_RecursionCollapses ==
    [][(ReturnEvent /\ SameSite) =>
          /\ CountAt(inst_data', Front(call_stack))
                = CountAt(inst_data, Front(call_stack)) + 1
          /\ call_stack \notin DOMAIN inst_data']_vars

\* C13 amended: the return of the inner of two same-site frames is counted
\* in the node of the path that ends in the token twice and leaves the
\* node of the outer path alone; the return of the outer frame is counted
\* in the node of the outer path and leaves the deeper node alone.
C13_RecursionPerDepth ==
    [][/\ (ReturnEvent /\ SameSite) =>
             /\ CountAt(inst_data', call_stack)
                   = CountAt(inst_data, call_stack) + 1
             /\ CountAt(inst_data', Front(call_stack))
                   = CountAt(inst_data, Front(call_stack))
       /\ (ReturnEvent /\ OuterOfPair) =>
             /\ CountAt(inst_data', call_stack)
                   = CountAt(inst_data, call_stack) + 1
             /\ CountAt(inst_data', Append(call_stack, Last(call_stack)))
                   = CountAt(inst_data, Append(call_stack, Last(call_stack)))
      ]_vars

\* enter(T), enter(T), return, return have run in one session: a node for
\* each depth, each with count 1
C13_Witness ==
    \E t \in Tokens :
        /\ op = "return" /\ err = "none"
        /\ profile_start # None /\ call_stack = <<TotalTok>> /\ frames = <<>>
        /\ CountAt(inst_data, <<TotalTok, t>>) = 1
        /\ CountAt(inst_data, <<TotalTok, t, t>>) = 1

\* the direct children of path q: q plus one more segment
Children(d, q) == {p \in DOMAIN d : Len(p) = Len(q) + 1 /\ Front(p) = q}

\* C14: after a finalize that ran to its end, the child_time of every node
\* is the sum of the times of exactly its direct children.
C14_ChildTimeDirectChildren ==
    (op \in {"finalize", "exit"} /\ br = "full") =>
        \A q \in DOMAIN inst_data :
            inst_data[q].child_time =
               SumOver([p \in DOMAIN inst_data |-> inst_data[p].time],
                       Children(inst_data, q))

\* path q has a child that ends in '$parent'
SelfChild(tn, q) ==
    \E k \in DOMAIN tn : Last(k) = ParentTok /\ Len(k) > 1 /\ Front(k) = q
\* the three percentages of a node
Pcts(n) == <<n.pct_parent, n.pct_total, n.tot_pct_total>>

\* C15: the percentage pass leaves every time alone and computes
\* pct_parent and pct_total of every node that is no '$parent' node from
\* the time of its parent and of the root as read; the pass after it sets
\* the time of every node with a '$parent' child to 0 and changes no other
\* time and no percentage.
C15_ZeroAfterPercentages ==
    [][/\ (mpc = "read" /\ mpc' = "zero") =>
             \A q \in DOMAIN tree_nodes :
                /\ tree_nodes'[q].time = tree_nodes[q].time
                /\ Last(q) # ParentTok =>
                      /\ tree_nodes'[q].pct_parent =
                            Div(tree_nodes[q].time,
                                tree_nodes[ParentKey(q)].time)
                      /\ tree_nodes'[q].pct_total =
                            Div(tree_nodes[q].time, tree_nodes[RootKey].time)
       /\ (mpc = "zero" /\ mpc' = "done") =>
             /\ DOMAIN tree_nodes' = DOMAIN tree_nodes
             /\ \A q \in DOMAIN tree_nodes :
                   /\ tree_nodes'[q].time =
                         IF SelfChild(tree_nodes, q) THEN 0
                         ELSE tree_nodes[q].time
                   /\ Pcts(tree_nodes'[q]) = Pcts(tree_nodes[q])
      ]_vars

\* a returned merge of '$total', '$total@a' and '$total@$parent', all with
\* time 1: the root is zeroed, the other two keep their time, and the
\* percentages of the root and of its child 'a' are 1/1
C15_Witness ==
    /\ mpc = "done"
    /\ DOMAIN tree_nodes = {RootKey, <<TotalTok, "a">>, <<TotalTok, ParentTok>>}
    /\ tree_nodes[RootKey].time = 0
    /\ tree_nodes[<<TotalTok, ParentTok>>].time = 1
    /\ tree_nodes[<<TotalTok, "a">>].time = 1
    /\ tree_nodes[RootKey].pct_total = Div(1, 1)
    /\ tree_nodes[<<TotalTok, "a">>].pct_parent = Div(1, 1)

\* the '$parent' marker as a record's trailing segment may reach the
\* totals: plain, or with the extension of a decorated file
Markers == {ParentTok} \cup {Decorate(<<ParentTok>>, e)[1] : e \in {".0", ".1"}}

\* C16: the totals that a merge returns, of one file or of several
\* rank-decorated files, have no entry made from a record whose trailing
\* segment is the '$parent' marker.
C16_MarkerNotInTotals ==
    (mpc = "done") => \A f \in DOMAIN totals : f \notin Markers

\* ------------------------------------------------- claims, two contexts
\* the last return was recorded under a path that holds the token of the
\* other context
Corrupted ==
    /\ ctx.who \in Contexts
    /\ \E i \in 1..Len(ctx.key) : ctx.key[i] = CtxToken(Other(ctx.who))

\* C17: on the shared pair, every return of a context made while the
\* other context's token is on the call stack is recorded under a path
\* that holds that token; with a stack pair for each context no return is
\* ever recorded under such a path.
C17_SharedStackMixes ==
    [][/\ Corrupted' => ctx'.shared
       /\ (/\ op' = "return" /\ ctx.shared
           /\ \E i \in 1..Len(call_stack) :
                 call_stack[i] = CtxToken(Other(ctx'.who))) => Corrupted'
      ]_vars

\* on the shared pair, a context's return has been recorded under a path
\* that holds the other context's token, both contexts having nested
\* their own events strictly
C17_Witness ==
    /\ ctx.shared /\ Corrupted
    /\ err = "none"

\* ---------------------------------------------------- claims, tracker 3
\* C18: while a session is active the bottom of the call stack is '$total'
\* and the call stack is one longer than the timing stack; while no
\* session is active both stacks are empty.
C18_StackShape ==
    /\ profile_start # None =>
          /\ call_stack # <<>>
          /\ call_stack[1] = TotalTok
          /\ Len(call_stack) = Len(timing_stack) + 1
    /\ profile_start = None =>
          /\ call_stack = <<>>
          /\ timing_stack = <<>>

\* C19: a start() that raises leaves the tracker as it was: no session is
\* marked active, no '$total' is pushed and no root node is made, so that
\* a later stop() has no session to count.
C19_FailedStartAtomic ==
    [][(op' = "start" /\ err' # "none") =>
          /\ profile_start' = profile_start
          /\ call_stack' = call_stack
          /\ inst_data' = inst_data]_vars

\* C20: setup(finalize=False) registers no exit-time finalizer, and a
\* finalize that runs right after a finalize that wrote the file writes
\* the same records and leaves every node as the first run left it.
C20_FinalizeIdempotent ==
    [][/\ (op' = "setup" /\ br' = "full_nofinalize") => ~atexit'
       /\ (/\ op = "finalize" /\ br = "full"
           /\ op' = "exit" /\ nfinal' = nfinal + 1) =>
             /\ out' = out
             /\ inst_data' = inst_data
      ]_vars

====
